---------------------------- MODULE Spec2Model ----------------------------
(***************************************************************************)
(* Device session multiplexer of Schmeckinger/launchpad.                   *)
(*                                                                         *)
(*   - Slot Table: trait OptVec for Vec<Option<T>> (src/main.rs,           *)
(*     src/bak/win_midi.rs).                                               *)
(*   - Light buffer: LaunchpadOut / LaunchpadOutBuf (src/launchpad.rs).    *)
(*   - Hardware Port Actor: midi_io and the InDev / OutDev handles of      *)
(*     src/bak/win_midi.rs.                                                *)
(*   - Grid Event Decoder: LaunchpadIn::map_midi_msgs (src/launchpad.rs).  *)
(*   - Session Router: State, ws_thread and pad_thread of src/main.rs on   *)
(*     top of the direct port layer src/win_midi.rs, and its index_to_pos  *)
(*     / pos_to_index.                                                     *)
(*                                                                         *)
(* A Vec is a sequence; the Rust index i is position i + 1.  Option<T> is  *)
(* a sequence of length 0 (None) or 1 (Some).                              *)
(***************************************************************************)
EXTENDS Integers, Sequences, FiniteSets, TLC

VARIABLES
    \* ---- Slot Table under test (OptVec) ----
    slot_vec,       \* the Vec<Option<T>>
    slot_hist,      \* the calls made so far: [op, arg, ret, pre]
    \* ---- Light buffer (LaunchpadOutBuf) and the device behind it ----
    colors,         \* LaunchpadOutBuf.colors: Vec<u8> of 81 cells
    hw,             \* per device LED address, the color last sent with success
    light_last,     \* the last light-buffer call: [op, pos, col, ret, pre]
    \* ---- Hardware Port Actor (midi_io) and what surrounds it ----
    inst_q,         \* the instruction channel inst_tx -> inst_rx
    in_vec,         \* midi_io's Vec<Option<(MidiInHandle, UnboundedSender<MidiMsg>)>>
    out_vec,        \* midi_io's Vec<Option<MidiOutHandle>>
    actor,          \* "running", or "panicked" once an unwrap in midi_io failed
    next_req,       \* the number of the next instruction, and of its reply channel
    replies,        \* per reply channel, what was sent on it
    msg_ch,         \* per notification channel, what was delivered on it
    msg_rx,         \* the notification channels whose receiver is alive
    drv,            \* the driver's native handles: [kind, tag, st]
    opens_ok,       \* per port kind, Opens whose driver open succeeded
    closes_hit,     \* per port kind, Closes that found their slot occupied
    act_last,       \* the instruction midi_io processed last, and how
    \* ---- Session Router (State behind the Mutex, ws_thread, pad_thread) ----
    state,          \* State: [current, out_vec]; State.out_pad is colors / hw
    poisoned,       \* the Mutex is poisoned: a thread panicked holding the guard
    ws,             \* per connection, its ws_thread: [pc, index]
    rx,             \* per connection, the strings waiting in its mpsc channel
    pad,            \* pad_thread: "running" or "panicked"
    router_last,    \* the last router step: [op, who, arg, ok, pre], pre the selection before it
    \* ---- Port handles (InDev / OutDev) held by the clients of midi_io ----
    ports,          \* per handle, numbered by its Open: [kind, st, num, wait]
    sent,           \* the instructions the handles have sent, in arrival order
    \* ---- Grid Event Decoder (LaunchpadIn::map_midi_msgs) ----
    dec_in,         \* the MidiMsg fed to the decoder: [msg, param1]
    dec_out,        \* what filter_map yielded for it: None or Some(Event)
    \* ---- index_to_pos / pos_to_index (src/main.rs) under test ----
    conv_in,        \* the call made: [fn, arg]
    conv_out,       \* what it returned
    \* ---- every native driver primitive invoked, by any component ----
    drv_calls       \* set of [prim, thread, stale]

slot_vars == <<slot_vec, slot_hist>>
light_vars == <<colors, hw, light_last>>
actor_vars == <<inst_q, in_vec, out_vec, actor, next_req, replies, msg_ch, msg_rx,
                drv, opens_ok, closes_hit, act_last>>

router_vars == <<state, poisoned, ws, rx, pad, router_last>>

port_vars == <<ports, sent>>

dec_vars == <<dec_in, dec_out>>

conv_vars == <<conv_in, conv_out>>

vars == <<slot_vars, light_vars, actor_vars, router_vars, port_vars, dec_vars, conv_vars,
          drv_calls>>

None == <<>>
Some(x) == <<x>>

Min(S) == CHOOSE x \in S : \A y \in S : x <= y

RECURSIVE BitAnd(_, _)
BitAnd(a, b) ==
    IF a = 0 \/ b = 0 THEN 0
    ELSE (a % 2) * (b % 2) + 2 * BitAnd(a \div 2, b \div 2)

RECURSIVE BitOr(_, _)
BitOr(a, b) ==
    IF a = 0 THEN b
    ELSE IF b = 0 THEN a
    ELSE (IF a % 2 = 1 \/ b % 2 = 1 THEN 1 ELSE 0) + 2 * BitOr(a \div 2, b \div 2)

-----------------------------------------------------------------------------
(* Bounds of the Slot Table specification.                                 *)
MaxSlotOps == 6
MaxSlotIndex == 4

-----------------------------------------------------------------------------
(* OptVec for Vec<Option<T>>                                               *)

\* self.iter().position(|opt| opt.is_none()).unwrap_or_else(|| self.len())
empty_index(v) ==
    IF \E i \in 1..Len(v) : v[i] = None
    THEN Min({i \in 1..Len(v) : v[i] = None}) - 1
    ELSE Len(v)

\* self.get(index).and_then(|opt| opt.as_ref())
get_inner(v, index) ==
    IF index < Len(v) THEN v[index + 1] ELSE None

\* a plausible slip: always grow, never reuse a hole
push_empty_append(v, item) ==
    [vec |-> Append(v, Some(item)), index |-> Len(v)]

\* find the first None and replace it, else push; returns the index
push_empty(v, item) ==
    IF \E i \in 1..Len(v) : v[i] = None
    THEN LET p == Min({i \in 1..Len(v) : v[i] = None})
         IN  [vec |-> [v EXCEPT ![p] = Some(item)], index |-> p - 1]
    ELSE [vec |-> Append(v, Some(item)), index |-> (Len(v) + 1) - 1]

\* a plausible slip: Vec::remove, which shifts the later slots down
take_at_remove(v, index) ==
    IF index < Len(v)
    THEN [vec |-> [i \in 1..(Len(v) - 1) |-> IF i < index + 1 THEN v[i] ELSE v[i + 1]],
          ret |-> v[index + 1]]
    ELSE [vec |-> v, ret |-> None]

\* self.get_mut(index)?.take()
take_at(v, index) ==
    IF index < Len(v)
    THEN [vec |-> [v EXCEPT ![index + 1] = None], ret |-> v[index + 1]]
    ELSE [vec |-> v, ret |-> None]

-----------------------------------------------------------------------------
(* Light buffer: LaunchpadOut and LaunchpadOutBuf (src/launchpad.rs) over   *)
(* OutDev::send (src/win_midi.rs).  A color is the byte a Color holds.      *)

\* Color::new
Color_new(val) == BitAnd(val, 51)

BLACK == 0
GREEN == 48
ORANGE == 51
RED == 3
YELLOW == 49

\* the index of a position in LaunchpadOutBuf.colors
CellIndex(pos) == pos[1] + pos[2] * 9

NumCells == 81

\* the LED addresses of the device: <<status byte, first data byte>>
HwAddrs ==
    {<<176, 104 + x>> : x \in 0..7} \cup
    {<<144, (y - 1) * 16 + x>> : x \in 0..8, y \in 1..8}

\* no color has been sent to this LED yet
NoSend == -1

\* LaunchpadOut::set_color: the short message the position maps to
LaunchpadOut_set_color(pos) ==
    IF pos[1] \in 0..7 /\ pos[2] = 0
    THEN [kind |-> "send", addr |-> <<176, BitOr(pos[1], 104)>>]
    ELSE IF pos[1] = 8 /\ pos[2] = 0
    THEN [kind |-> "ok", addr |-> <<>>]
    ELSE IF pos[1] \in 0..8 /\ pos[2] \in 1..8
    THEN [kind |-> "send", addr |-> <<144, (pos[2] - 1) * 16 + pos[1]>>]
    ELSE [kind |-> "OutOfRange", addr |-> <<>>]

\* a plausible slip: the in-memory copy is written before the send is known
\* to have succeeded
buf_set_color_eager(buf, pos, col, sendOk) ==
    LET m == LaunchpadOut_set_color(pos)
    IN  IF m.kind = "OutOfRange"
        THEN [colors |-> buf.colors, hw |-> buf.hw, ret |-> "OutOfRange", called |-> FALSE]
        ELSE [colors |-> [buf.colors EXCEPT ![CellIndex(pos)] = col],
              hw |-> IF m.kind = "send" /\ sendOk
                     THEN [buf.hw EXCEPT ![m.addr] = col] ELSE buf.hw,
              ret |-> IF m.kind = "send" /\ ~sendOk THEN "MidiError" ELSE "Ok",
              called |-> m.kind = "send"]

\* LaunchpadOutBuf::set_color on buf = [colors, hw]; sendOk is the outcome of
\* the driver's midiOutShortMsg should the call reach it.  called tells
\* whether the driver primitive was invoked.
buf_set_color(buf, pos, col, sendOk) ==
    LET m == LaunchpadOut_set_color(pos)
    IN  IF m.kind = "OutOfRange"
        THEN [colors |-> buf.colors, hw |-> buf.hw, ret |-> "OutOfRange", called |-> FALSE]
        ELSE IF m.kind = "ok"
        THEN [colors |-> [buf.colors EXCEPT ![CellIndex(pos)] = col],
              hw |-> buf.hw, ret |-> "Ok", called |-> FALSE]
        ELSE IF sendOk
        THEN [colors |-> [buf.colors EXCEPT ![CellIndex(pos)] = col],
              hw |-> [buf.hw EXCEPT ![m.addr] = col], ret |-> "Ok", called |-> TRUE]
        ELSE [colors |-> buf.colors, hw |-> buf.hw, ret |-> "MidiError", called |-> TRUE]

\* LaunchpadOutBuf::clear: send (0xB0, 0, 0), the device reset, then zero
\* the array
buf_clear(buf, sendOk) ==
    IF sendOk
    THEN [colors |-> [i \in 0..(NumCells - 1) |-> 0],
          hw |-> [a \in HwAddrs |-> 0], ret |-> "Ok", called |-> TRUE]
    ELSE [colors |-> buf.colors, hw |-> buf.hw, ret |-> "MidiError", called |-> TRUE]

\* LaunchpadOutBuf::get_color
get_color(cs, pos) == Color_new(cs[CellIndex(pos)])

\* positions and colors the light specification calls the buffer with: both
\* rows of the top, the corner (8, 0), the matrix, and positions out of range
LightPositions ==
    {<<0, 0>>, <<8, 0>>, <<0, 1>>, <<8, 8>>, <<9, 0>>, <<0, 9>>}

LightColors == {BLACK, RED, GREEN}

\* LaunchpadOutBuf::new
LightInit ==
    /\ colors = [i \in 0..(NumCells - 1) |-> 0]
    /\ hw = [a \in HwAddrs |-> NoSend]
    /\ light_last = [op |-> "new", pos |-> <<0, 0>>, col |-> 0, ret |-> "Ok",
                     pre |-> [i \in 0..(NumCells - 1) |-> 0]]

LightSetColor ==
    /\ \E pos \in LightPositions, col \in LightColors, sendOk \in BOOLEAN :
         LET r == buf_set_color([colors |-> colors, hw |-> hw], pos, col, sendOk)
         IN  /\ colors' = r.colors
             /\ hw' = r.hw
             /\ light_last' = [op |-> "set_color", pos |-> pos, col |-> col,
                               ret |-> r.ret, pre |-> colors]
    /\ UNCHANGED <<slot_vars, actor_vars, router_vars, port_vars, dec_vars, conv_vars,
                   drv_calls>>

LightClear ==
    /\ \E sendOk \in BOOLEAN :
         LET r == buf_clear([colors |-> colors, hw |-> hw], sendOk)
         IN  /\ colors' = r.colors
             /\ hw' = r.hw
             /\ light_last' = [op |-> "clear", pos |-> <<0, 0>>, col |-> 0,
                               ret |-> r.ret, pre |-> colors]
    /\ UNCHANGED <<slot_vars, actor_vars, router_vars, port_vars, dec_vars, conv_vars,
                   drv_calls>>

\* LaunchpadOutBuf::get_color as a call of its own: self.colors[..] is a
\* bounds-checked index, which panics past the end of the Vec
index_colors(cs, pos) ==
    IF CellIndex(pos) \in DOMAIN cs
    THEN [ret |-> "Ok", col |-> get_color(cs, pos)]
    ELSE [ret |-> "panic", col |-> 0]

LightGetColor ==
    /\ \E pos \in LightPositions :
         LET r == index_colors(colors, pos)
         IN  light_last' = [op |-> "get_color", pos |-> pos, col |-> r.col,
                            ret |-> r.ret, pre |-> colors]
    /\ UNCHANGED <<colors, hw, slot_vars, actor_vars, router_vars, port_vars, dec_vars,
                   conv_vars, drv_calls>>

LightNext == LightSetColor \/ LightClear \/ LightGetColor

-----------------------------------------------------------------------------
(* Hardware Port Actor: midi_io (src/bak/win_midi.rs) with its instruction  *)
(* queue, the oneshot reply channels, the per-port notification channels    *)
(* and the driver.  Every driver primitive may succeed or fail.             *)
(*                                                                          *)
(* The instructions are those of enum MidiInst; the environment of midi_io  *)
(* may enqueue any of them, naming any slot.  A panic of midi_io stops the  *)
(* actor; its tables are kept as they were at the panic.                    *)

\* Bounds of the actor specification.
MaxInst == 4
MaxQueue == 3

ActorThread == "actor"

Devices == {0}

\* OutDev::send: the three bytes packed into the short message DWORD
pack_short_msg(msg, dw1, dw2) == msg + dw1 * 256 + dw2 * 65536

Payloads == {pack_short_msg(144, 0, 3)}

\* MidiResult values on a reply channel
ReplyOk(num) == [res |-> "Ok", num |-> num]
ReplyUnit == [res |-> "Ok", num |-> -1]
ReplyErr == [res |-> "Err", num |-> -1]

\* a MidiInst; req = 0 for the variants without a reply channel
Inst(op, req, num, arg) == [op |-> op, req |-> req, num |-> num, arg |-> arg]

NoCalls == <<>>
Call(prim, ok) == [prim |-> prim, ok |-> ok]

\* the calls of one step added to the log of driver calls; stale tells that
\* the handle was closed before the call
Logged(calls, thread, stale) ==
    drv_calls \cup {[prim |-> calls[i].prim, thread |-> thread, stale |-> stale] :
                       i \in 1..Len(calls)}

\* midi_io's local tables and the channels, before the first instruction
ActorInit ==
    /\ inst_q = <<>>
    /\ in_vec = <<>>
    /\ out_vec = <<>>
    /\ actor = "running"
    /\ next_req = 1
    /\ replies = [r \in 1..MaxInst |-> <<>>]
    /\ msg_ch = [r \in 1..MaxInst |-> <<>>]
    /\ msg_rx = {}
    /\ drv = <<>>
    /\ opens_ok = [in |-> 0, out |-> 0]
    /\ closes_hit = [in |-> 0, out |-> 0]
    /\ act_last = [op |-> "none", req |-> 0, num |-> 0, found |-> FALSE,
                   calls |-> NoCalls, pre_in |-> <<>>, pre_out |-> <<>>]

Last(inst, found, calls) ==
    [op |-> inst.op, req |-> inst.req, num |-> inst.num, found |-> found,
     calls |-> calls, pre_in |-> in_vec, pre_out |-> out_vec]

\* a plausible slip: the reply is sent and sent again
ret_twice(req, result) == [replies EXCEPT ![req] = Append(Append(@, result), result)]

\* ChanReturnTrait::ret: one send on the oneshot channel.  Every issuer in
\* the repository holds its receiver until the reply (res_rx.await), so the
\* send finds the receiver alive.
ret(req, result) == [replies EXCEPT ![req] = Append(@, result)]

\* ---- the environment: instructions put on the queue ---------------------

\* the slot numbers an instruction is given: every index of the table and the
\* first one past its end (any larger index is out of range just the same)
Nums(vec) == 0..Len(vec)

\* InDev::new / OutDev::new up to the send: a fresh reply channel, then the
\* Open instruction
IssueOpen ==
    /\ actor = "running"
    /\ Len(inst_q) < MaxQueue
    /\ next_req <= MaxInst
    /\ \E op \in {"InOpen", "OutOpen"}, id \in Devices :
         inst_q' = Append(inst_q, Inst(op, next_req, 0, id))
    /\ next_req' = next_req + 1
    /\ UNCHANGED <<in_vec, out_vec, actor, replies, msg_ch, msg_rx, drv, opens_ok,
                   closes_hit, act_last, drv_calls, slot_vars, light_vars, router_vars,
                   port_vars, dec_vars, conv_vars>>

\* InDev::reset / start / stop, OutDev::reset / send up to the send
IssueOp ==
    /\ actor = "running"
    /\ Len(inst_q) < MaxQueue
    /\ next_req <= MaxInst
    /\ \E op \in {"InReset", "InStart", "InStop", "OutReset", "OutSend"}, msg \in Payloads :
       \E num \in Nums(IF op \in {"OutReset", "OutSend"} THEN out_vec ELSE in_vec) :
         inst_q' = Append(inst_q, Inst(op, next_req, num, IF op = "OutSend" THEN msg ELSE 0))
    /\ next_req' = next_req + 1
    /\ UNCHANGED <<in_vec, out_vec, actor, replies, msg_ch, msg_rx, drv, opens_ok,
                   closes_hit, act_last, drv_calls, slot_vars, light_vars, router_vars,
                   port_vars, dec_vars, conv_vars>>

\* Drop for InDev / OutDev: the Close instruction, which has no reply channel
IssueClose ==
    /\ actor = "running"
    /\ Len(inst_q) < MaxQueue
    /\ next_req <= MaxInst
    /\ \E op \in {"InClose", "OutClose"} :
       \E num \in Nums(IF op = "OutClose" THEN out_vec ELSE in_vec) :
         inst_q' = Append(inst_q, Inst(op, 0, num, 0))
    /\ next_req' = next_req + 1
    /\ UNCHANGED <<in_vec, out_vec, actor, replies, msg_ch, msg_rx, drv,
                   opens_ok, closes_hit, act_last, drv_calls, slot_vars,
                   light_vars, router_vars, port_vars, dec_vars, conv_vars>>

\* midi_in_cb, on a thread of the driver: the notification of an open input
\* handle is put on the queue as InMsg, num being the tag given at the open
midi_in_cb ==
    /\ actor = "running"
    /\ Len(inst_q) < MaxQueue
    /\ next_req <= MaxInst
    /\ \E h \in DOMAIN drv :
         /\ drv[h].kind = "in"
         /\ drv[h].st = "open"
         /\ inst_q' = Append(inst_q, Inst("InMsg", 0, drv[h].tag, h))
    /\ next_req' = next_req + 1
    /\ UNCHANGED <<in_vec, out_vec, actor, replies, msg_ch, msg_rx, drv, opens_ok,
                   closes_hit, act_last, drv_calls, slot_vars, light_vars, router_vars,
                   port_vars, dec_vars, conv_vars>>

\* the owner of a notification receiver drops it (the InDev is destroyed)
DropMsgRx ==
    /\ \E c \in msg_rx : msg_rx' = msg_rx \ {c}
    /\ UNCHANGED <<inst_q, in_vec, out_vec, actor, next_req, replies, msg_ch, drv,
                   opens_ok, closes_hit, act_last, drv_calls, slot_vars,
                   light_vars, router_vars, port_vars, dec_vars, conv_vars>>

\* ---- midi_io: one arm of the match per action ---------------------------

Receives(op) ==
    /\ actor = "running"
    /\ inst_q # <<>>
    /\ Head(inst_q).op = op

\* the outcomes of a Close of an occupied slot: reset(..).unwrap() then
\* close(..).unwrap(); a failed reset panics before close is called
CloseOutcomes(resetPrim, closePrim) ==
    {[calls |-> <<Call(resetPrim, FALSE)>>, closed |-> FALSE],
     [calls |-> <<Call(resetPrim, TRUE), Call(closePrim, FALSE)>>, closed |-> FALSE],
     [calls |-> <<Call(resetPrim, TRUE), Call(closePrim, TRUE)>>, closed |-> TRUE]}

\* a plausible slip: a Close that resets and closes without releasing the slot
take_at_keep(v, index) ==
    [vec |-> v, ret |-> get_inner(v, index)]

\* the release of the slot a Close names
close_take(v, index) == take_at(v, index)

\* InClose(num)
ActInClose ==
    /\ Receives("InClose")
    /\ LET inst == Head(inst_q)
           t == close_take(in_vec, inst.num)
       IN  /\ in_vec' = t.vec
           /\ IF t.ret = None
              THEN /\ act_last' = Last(inst, FALSE, NoCalls)
                   /\ UNCHANGED <<actor, drv, drv_calls, closes_hit>>
              ELSE \E o \in CloseOutcomes("midi_in_reset", "midi_in_close") :
                   LET h == t.ret[1].handle
                   IN  /\ actor' = IF o.closed THEN "running" ELSE "panicked"
                       /\ drv' = IF o.closed THEN [drv EXCEPT ![h].st = "closed"] ELSE drv
                       /\ drv_calls' = Logged(o.calls, ActorThread, drv[h].st = "closed")
                       /\ closes_hit' = [closes_hit EXCEPT !.in = @ + 1]
                       /\ act_last' = Last(inst, TRUE, o.calls)
    /\ inst_q' = Tail(inst_q)
    /\ UNCHANGED <<out_vec, next_req, replies, msg_ch, msg_rx, opens_ok,
                   slot_vars, light_vars, router_vars, port_vars, dec_vars, conv_vars>>

\* InMsg(msg): forward to the slot's notification channel, unwrapped; a
\* send to a channel whose receiver is gone fails
ActInMsg ==
    /\ Receives("InMsg")
    /\ LET inst == Head(inst_q)
           item == get_inner(in_vec, inst.num)
       IN  /\ IF item = None
              THEN UNCHANGED <<msg_ch, actor>>
              ELSE IF item[1].tx \in msg_rx
              THEN /\ msg_ch' = [msg_ch EXCEPT ![item[1].tx] =
                                    Append(@, [num |-> inst.num, src |-> inst.arg])]
                   /\ actor' = actor
              ELSE /\ actor' = "panicked"
                   /\ msg_ch' = msg_ch
           /\ act_last' = Last(inst, item # None, NoCalls)
    /\ inst_q' = Tail(inst_q)
    /\ UNCHANGED <<in_vec, out_vec, next_req, replies, msg_rx, drv, opens_ok,
                   closes_hit, drv_calls, slot_vars, light_vars, router_vars,
                   port_vars, dec_vars, conv_vars>>

\* a plausible slip: the slot is allocated before the driver's answer is known
open_result_eager(vec, item, openOk) ==
    LET r == push_empty(vec, item)
    IN  [vec |-> r.vec, reply |-> IF openOk THEN ReplyOk(r.index) ELSE ReplyErr]

\* sys::midi_*_open(..).map(|handle| vec.push_empty(..)): the slot is
\* allocated only when the driver returned a handle
open_result(vec, item, openOk) ==
    IF openOk
    THEN LET r == push_empty(vec, item)
         IN  [vec |-> r.vec, reply |-> ReplyOk(r.index)]
    ELSE [vec |-> vec, reply |-> ReplyErr]

\* InOpen(res_tx, id): a fresh notification channel, the driver open with
\* in_vec.empty_index() as the tag, the slot, the reply.  The native handle
\* and the notification channel are numbered by the request.
ActInOpen ==
    /\ Receives("InOpen")
    /\ \E openOk \in BOOLEAN :
         LET inst == Head(inst_q)
             h == inst.req
             r == open_result(in_vec, [handle |-> h, tx |-> inst.req], openOk)
             calls == <<Call("midi_in_open", openOk)>>
         IN  /\ in_vec' = r.vec
             /\ replies' = ret(inst.req, r.reply)
             /\ msg_rx' = IF openOk THEN msg_rx \cup {inst.req} ELSE msg_rx
             /\ drv' = IF openOk
                       THEN drv @@ (h :> [kind |-> "in", tag |-> empty_index(in_vec),
                                          st |-> "open"])
                       ELSE drv
             /\ opens_ok' = IF openOk THEN [opens_ok EXCEPT !.in = @ + 1] ELSE opens_ok
             /\ drv_calls' = Logged(calls, ActorThread, FALSE)
             /\ act_last' = Last(inst, FALSE, calls)
    /\ inst_q' = Tail(inst_q)
    /\ UNCHANGED <<out_vec, actor, next_req, msg_ch, closes_hit,
                   slot_vars, light_vars, router_vars, port_vars, dec_vars, conv_vars>>

\* a plausible slip: an instruction naming an empty slot is answered with an
\* error instead of being dropped
unit_reply_always(item, req, callOk) ==
    IF item = None THEN ret(req, ReplyErr)
    ELSE ret(req, IF callOk THEN ReplyUnit ELSE ReplyErr)

\* if let Some(item) = vec.get_inner(num) { res_tx.ret(prim(item)) }: the
\* reply sender is dropped unused when the slot is empty
unit_reply(item, req, callOk) ==
    IF item = None THEN replies
    ELSE ret(req, IF callOk THEN ReplyUnit ELSE ReplyErr)

InHandle(item) == item.handle
OutHandle(item) == item

\* InReset / InStart / InStop / OutReset / OutSend (res_tx, num): look the
\* slot up; if it is occupied call the primitive and reply with its result
UnitArm(op, vec, input, prim) ==
    /\ Receives(op)
    /\ \E callOk \in BOOLEAN :
         LET inst == Head(inst_q)
             item == get_inner(vec, inst.num)
             calls == IF item = None THEN NoCalls ELSE <<Call(prim, callOk)>>
             handle == IF input THEN InHandle(item[1]) ELSE OutHandle(item[1])
         IN  /\ replies' = unit_reply(item, inst.req, callOk)
             /\ drv_calls' = IF item = None THEN drv_calls
                             ELSE Logged(calls, ActorThread, drv[handle].st = "closed")
             /\ act_last' = Last(inst, item # None, calls)
    /\ inst_q' = Tail(inst_q)
    /\ UNCHANGED <<in_vec, out_vec, actor, next_req, msg_ch, msg_rx, drv, opens_ok,
                   closes_hit, slot_vars, light_vars, router_vars, port_vars, dec_vars,
                   conv_vars>>

ActInReset == UnitArm("InReset", in_vec, TRUE, "midi_in_reset")

ActInStart == UnitArm("InStart", in_vec, TRUE, "midi_in_start")

ActInStop == UnitArm("InStop", in_vec, TRUE, "midi_in_stop")

\* OutClose(num)
ActOutClose ==
    /\ Receives("OutClose")
    /\ LET inst == Head(inst_q)
           t == close_take(out_vec, inst.num)
       IN  /\ out_vec' = t.vec
           /\ IF t.ret = None
              THEN /\ act_last' = Last(inst, FALSE, NoCalls)
                   /\ UNCHANGED <<actor, drv, drv_calls, closes_hit>>
              ELSE \E o \in CloseOutcomes("midi_out_reset", "midi_out_close") :
                   LET h == t.ret[1]
                   IN  /\ actor' = IF o.closed THEN "running" ELSE "panicked"
                       /\ drv' = IF o.closed THEN [drv EXCEPT ![h].st = "closed"] ELSE drv
                       /\ drv_calls' = Logged(o.calls, ActorThread, drv[h].st = "closed")
                       /\ closes_hit' = [closes_hit EXCEPT !.out = @ + 1]
                       /\ act_last' = Last(inst, TRUE, o.calls)
    /\ inst_q' = Tail(inst_q)
    /\ UNCHANGED <<in_vec, next_req, replies, msg_ch, msg_rx, opens_ok,
                   slot_vars, light_vars, router_vars, port_vars, dec_vars, conv_vars>>

\* OutOpen(res_tx, id)
ActOutOpen ==
    /\ Receives("OutOpen")
    /\ \E openOk \in BOOLEAN :
         LET inst == Head(inst_q)
             h == inst.req
             r == open_result(out_vec, h, openOk)
             calls == <<Call("midi_out_open", openOk)>>
         IN  /\ out_vec' = r.vec
             /\ replies' = ret(inst.req, r.reply)
             /\ drv' = IF openOk
                       THEN drv @@ (h :> [kind |-> "out", tag |-> 0, st |-> "open"])
                       ELSE drv
             /\ opens_ok' = IF openOk THEN [opens_ok EXCEPT !.out = @ + 1] ELSE opens_ok
             /\ drv_calls' = Logged(calls, ActorThread, FALSE)
             /\ act_last' = Last(inst, FALSE, calls)
    /\ inst_q' = Tail(inst_q)
    /\ UNCHANGED <<in_vec, actor, next_req, msg_ch, msg_rx, closes_hit,
                   slot_vars, light_vars, router_vars, port_vars, dec_vars, conv_vars>>

ActOutReset == UnitArm("OutReset", out_vec, FALSE, "midi_out_reset")

ActOutSend == UnitArm("OutSend", out_vec, FALSE, "midi_out_msg")

ActorNext ==
    \/ IssueOpen
    \/ IssueOp
    \/ IssueClose
    \/ midi_in_cb
    \/ DropMsgRx
    \/ ActInClose
    \/ ActInMsg
    \/ ActInOpen
    \/ ActInReset
    \/ ActInStart
    \/ ActInStop
    \/ ActOutClose
    \/ ActOutOpen
    \/ ActOutReset
    \/ ActOutSend

-----------------------------------------------------------------------------
(* Port handles: InDev / OutDev of src/bak/win_midi.rs, the clients of      *)
(* midi_io.  A handle is numbered by the request of its Open.  Each async   *)
(* fn sends one instruction and awaits its reply; a handle is destroyed     *)
(* only when no call on it is outstanding (the calls borrow it).            *)

\* a plausible slip: a channel that hands the newest instruction over first
unbounded_send_front(q, inst) == <<inst>> \o q

\* inst_tx.unbounded_send(inst): the instruction joins the queue at its end
unbounded_send(q, inst) == Append(q, inst)

NoPort == [kind |-> "none", st |-> "none", num |-> 0, wait |-> 0]

PortsInit ==
    /\ ports = [p \in 1..MaxInst |-> NoPort]
    /\ sent = <<>>

OpenOp(kind) == IF kind = "in" THEN "InOpen" ELSE "OutOpen"
CloseOp(kind) == IF kind = "in" THEN "InClose" ELSE "OutClose"
PortOps(kind) == IF kind = "in" THEN {"InReset", "InStart", "InStop"}
                 ELSE {"OutReset", "OutSend"}

\* the instruction is sent on the handle's clone of inst_tx
Sends(p, inst) ==
    /\ actor = "running"
    /\ Len(inst_q) < MaxQueue
    /\ next_req <= MaxInst
    /\ inst_q' = unbounded_send(inst_q, inst)
    /\ sent' = Append(sent, [port |-> p, inst |-> inst])
    /\ next_req' = next_req + 1

\* InDev::new / OutDev::new up to res_rx.await
PortNew ==
    /\ \E kind \in {"in", "out"}, id \in Devices :
         /\ Sends(next_req, Inst(OpenOp(kind), next_req, 0, id))
         /\ ports' = [ports EXCEPT ![next_req] =
                         [kind |-> kind, st |-> "opening", num |-> 0, wait |-> next_req]]
    /\ UNCHANGED <<in_vec, out_vec, actor, replies, msg_ch, msg_rx, drv, opens_ok,
                   closes_hit, act_last, drv_calls, slot_vars, light_vars, router_vars,
                   dec_vars, conv_vars>>

\* res_rx.await.unwrap(): the reply arrives; for an Open, Ok(num) makes the
\* handle and Err makes none.  When midi_io has panicked the sender is gone
\* and the unwrap panics the caller.
PortAwait(p) ==
    /\ ports[p].wait # 0
    /\ LET r == replies[ports[p].wait]
       IN  IF r # <<>>
           THEN ports' = [ports EXCEPT ![p] =
                    IF @.st = "opening"
                    THEN IF r[1].res = "Ok"
                         THEN [@ EXCEPT !.st = "open", !.num = r[1].num, !.wait = 0]
                         ELSE [@ EXCEPT !.st = "failed", !.wait = 0]
                    ELSE [@ EXCEPT !.wait = 0]]
           ELSE /\ actor = "panicked"
                /\ ports' = [ports EXCEPT ![p] = [@ EXCEPT !.st = "panicked", !.wait = 0]]
    /\ UNCHANGED <<actor_vars, sent, drv_calls, slot_vars, light_vars, router_vars,
                   dec_vars, conv_vars>>

\* InDev::reset / start / stop, OutDev::reset / send up to res_rx.await
PortOp(p) ==
    /\ ports[p].st = "open"
    /\ ports[p].wait = 0
    /\ \E op \in PortOps(ports[p].kind), msg \in Payloads :
         Sends(p, Inst(op, next_req, ports[p].num, IF op = "OutSend" THEN msg ELSE 0))
    /\ ports' = [ports EXCEPT ![p].wait = next_req]
    /\ UNCHANGED <<in_vec, out_vec, actor, replies, msg_ch, msg_rx, drv, opens_ok,
                   closes_hit, act_last, drv_calls, slot_vars, light_vars, router_vars,
                   dec_vars, conv_vars>>

\* a plausible slip: the Close names the first slot instead of the handle's
drop_inst_first(port) == Inst(CloseOp(port.kind), 0, 0, 0)

\* MidiInst::InClose(self.num) / MidiInst::OutClose(self.num)
drop_inst(port) == Inst(CloseOp(port.kind), 0, port.num, 0)

\* Drop for InDev / OutDev: the Close is sent and drop returns; the fields,
\* among them the receiver msg_rx of an InDev, are dropped with the handle
PortDrop(p) ==
    /\ ports[p].st = "open"
    /\ ports[p].wait = 0
    /\ Sends(p, drop_inst(ports[p]))
    /\ ports' = [ports EXCEPT ![p].st = "dropped"]
    /\ msg_rx' = msg_rx \ {p}
    /\ UNCHANGED <<in_vec, out_vec, actor, replies, msg_ch, drv, opens_ok,
                   closes_hit, act_last, drv_calls, slot_vars, light_vars, router_vars,
                   dec_vars, conv_vars>>

PortsNext ==
    \/ PortNew
    \/ \E p \in 1..MaxInst : PortAwait(p)
    \/ \E p \in 1..MaxInst : PortOp(p)
    \/ \E p \in 1..MaxInst : PortDrop(p)
    \/ midi_in_cb
    \/ ActInClose
    \/ ActInMsg
    \/ ActInOpen
    \/ ActInReset
    \/ ActInStart
    \/ ActInStop
    \/ ActOutClose
    \/ ActOutOpen
    \/ ActOutReset
    \/ ActOutSend

-----------------------------------------------------------------------------
(* Grid Event Decoder: LaunchpadIn::map_midi_msgs (src/launchpad.rs), the   *)
(* closure given to filter_map, applied to one MidiMsg at a time.           *)

\* Bound of the decoder specification: the largest second byte fed to it.
MaxPosByte == 127

\* winapi MM_MIM_DATA, and MM_MIM_LONGDATA as a message that is not data and
\* that midi_in_cb forwards through its `_` arm
IN_DATA == 963
MIM_LONGDATA == 964

\* (x as u32).to_le_bytes()[k], for the values below 2^31 fed here
le_byte(x, k) == (x \div (256 ^ k)) % 256

Up(pos) == [kind |-> "Up", pos |-> pos]
Down(pos) == [kind |-> "Down", pos |-> pos]

\* a plausible slip: the column masked to the eight pads of a row
map_midi_msg_narrow(m) ==
    LET st == le_byte(m.param1, 0)
        pos == le_byte(m.param1, 1)
        vel == le_byte(m.param1, 2)
    IN  IF m.msg = IN_DATA /\ st = 144 /\ vel = 0
        THEN Some(Up(<<BitAnd(pos, 7), (pos \div 16) + 1>>))
        ELSE IF m.msg = IN_DATA /\ st = 144 /\ vel = 127
        THEN Some(Down(<<BitAnd(pos, 7), (pos \div 16) + 1>>))
        ELSE IF m.msg = IN_DATA /\ st = 176 /\ vel = 0
        THEN Some(Up(<<BitAnd(pos, 7), 0>>))
        ELSE IF m.msg = IN_DATA /\ st = 176 /\ vel = 127
        THEN Some(Down(<<BitAnd(pos, 7), 0>>))
        ELSE None

\* the match of map_midi_msgs on (msg.msg, (msg.param1 as u32).to_le_bytes())
map_midi_msg(m) ==
    LET st == le_byte(m.param1, 0)
        pos == le_byte(m.param1, 1)
        vel == le_byte(m.param1, 2)
    IN  IF m.msg = IN_DATA /\ st = 144 /\ vel = 0
        THEN Some(Up(<<BitAnd(pos, 15), (pos \div 16) + 1>>))
        ELSE IF m.msg = IN_DATA /\ st = 144 /\ vel = 127
        THEN Some(Down(<<BitAnd(pos, 15), (pos \div 16) + 1>>))
        ELSE IF m.msg = IN_DATA /\ st = 176 /\ vel = 0
        THEN Some(Up(<<BitAnd(pos, 7), 0>>))
        ELSE IF m.msg = IN_DATA /\ st = 176 /\ vel = 127
        THEN Some(Down(<<BitAnd(pos, 7), 0>>))
        ELSE None

\* the notifications fed to the decoder: data and non-data messages, note-on,
\* controller and note-off status, velocities on, off and in between, with
\* and without a fourth byte
DecMsgs == {IN_DATA, MIM_LONGDATA}
DecStatuses == {144, 176, 128}
DecVelocities == {0, 127, 64}
DecHighBytes == {0, 1}

MidiMsg(msg, st, pos, vel, hi) ==
    [msg |-> msg, param1 |-> st + pos * 256 + vel * 65536 + hi * 16777216]

\* no notification has been fed yet
NotFed == [msg |-> MIM_LONGDATA, param1 |-> -1]

DecoderInit ==
    /\ dec_in = NotFed
    /\ dec_out = None

\* one item of the iterator through the closure.  The closure keeps nothing
\* between items, so the specification feeds it one notification.
Decode ==
    /\ dec_in = NotFed
    /\ \E msg \in DecMsgs, st \in DecStatuses, pos \in 0..MaxPosByte,
          vel \in DecVelocities, hi \in DecHighBytes :
         /\ dec_in' = MidiMsg(msg, st, pos, vel, hi)
         /\ dec_out' = map_midi_msg(MidiMsg(msg, st, pos, vel, hi))
    /\ UNCHANGED <<slot_vars, light_vars, actor_vars, router_vars, port_vars, conv_vars,
                   drv_calls>>

DecoderNext == Decode

-----------------------------------------------------------------------------
(* Session Router: State, ws_thread and pad_thread (src/main.rs).  Lights   *)
(* go through LaunchpadOutBuf, whose sends reach the driver on the calling  *)
(* thread (OutDev::send of src/win_midi.rs).  Each statement that takes the *)
(* Mutex is one step; an unwrap that fails while the guard is held poisons  *)
(* the Mutex, and lock().unwrap() on a poisoned Mutex panics.               *)

\* Bounds of the router specification.
MaxConn == 2
MaxRx == 1

Conns == 1..MaxConn

WsThread(c) == "ws" \o ToString(c)
PadThread == "pad"
MainThread == "main"

\* index_to_pos / pos_to_index, on u8
index_to_pos(index) == <<index % 8, (index \div 8) + 1>>

pos_to_index(pos) == (pos[1] + ((pos[2] - 1) * 8)) % 256

\* the velocity-on notifications the device sends pad_thread's LaunchpadIn:
\* the note-ons of the pads of the first sessions and of one pad past them,
\* the note-ons of buttons 0 and 5 of row 8, and the controller message of
\* top-row button 0 (the addresses of LaunchpadOut::set_color)
PadMsgs ==
    {MidiMsg(IN_DATA, 144, (index_to_pos(i)[2] - 1) * 16 + index_to_pos(i)[1], 127, 0) :
        i \in 0..MaxConn}
    \cup {MidiMsg(IN_DATA, 144, 112, 127, 0), MidiMsg(IN_DATA, 144, 117, 127, 0),
          MidiMsg(IN_DATA, 176, 104, 127, 0)}

\* the positions of the Down events in_pad.msgs() yields for them
PadEvents == {map_midi_msg(m)[1].pos : m \in PadMsgs}

\* what websocket.read_message() yields to the match of ws_thread
ReadOutcomes == {"closed", "1", "2", "other", "error"}

Buf == [colors |-> colors, hw |-> hw]

\* the receiver of connection c's channel is alive: ws_thread c owns it from
\* its start until it returns or unwinds
RxAlive(c) == ws[c].pc \in {"pushed", "lit", "loop", "drain", "exit"}

RouterLast(op, who, arg, ok) ==
    [op |-> op, who |-> who, arg |-> arg, ok |-> ok, pre |-> state.current]

\* the router at rest, for the specifications of the other components
RouterIdle ==
    /\ state = [current |-> None, out_vec |-> <<>>]
    /\ poisoned = FALSE
    /\ ws = [c \in Conns |-> [pc |-> "new", index |-> 0]]
    /\ rx = [c \in Conns |-> <<>>]
    /\ pad = "running"
    /\ router_last = [op |-> "none", who |-> "none", arg |-> <<>>, ok |-> TRUE,
                      pre |-> None]

\* main, up to the spawn of pad_thread: the ports opened and started, the
\* buffer cleared and the four colors set, every call having succeeded
\* (a failure leaves main through `?`)
MainColors ==
    [i \in 0..(NumCells - 1) |->
        IF i = CellIndex(<<1, 8>>) THEN YELLOW
        ELSE IF i = CellIndex(<<2, 8>>) THEN ORANGE
        ELSE IF i = CellIndex(<<3, 8>>) THEN RED
        ELSE IF i = CellIndex(<<4, 8>>) THEN GREEN
        ELSE 0]

RouterInit ==
    /\ RouterIdle
    /\ colors = MainColors
    /\ hw = [a \in HwAddrs |->
                IF a = <<144, 113>> THEN YELLOW
                ELSE IF a = <<144, 114>> THEN ORANGE
                ELSE IF a = <<144, 115>> THEN RED
                ELSE IF a = <<144, 116>> THEN GREEN
                ELSE 0]
    /\ light_last = [op |-> "set_color", pos |-> <<4, 8>>, col |-> GREEN, ret |-> "Ok",
                     pre |-> [MainColors EXCEPT ![CellIndex(<<4, 8>>)] = 0]]
    /\ drv_calls = {[prim |-> p, thread |-> MainThread, stale |-> FALSE] :
                       p \in {"midi_in_open", "midi_in_start", "midi_out_open",
                              "midi_out_msg"}}

\* the driver calls of one set_color, made on the calling thread
SendLogged(log, r, thread) ==
    IF r.called
    THEN log \cup {[prim |-> "midi_out_msg", thread |-> thread, stale |-> FALSE]}
    ELSE log

\* a set_color not reached because an earlier unwrap panicked
Skipped(b) == [colors |-> b.colors, hw |-> b.hw, ret |-> "Skipped", called |-> FALSE]

\* set_color(pos, col).unwrap() after the calls that gave b
Then(b, pos, col, sendOk) ==
    IF b.ret = "Ok" THEN buf_set_color(b, pos, col, sendOk) ELSE Skipped(b)

Start(b) == [colors |-> b.colors, hw |-> b.hw, ret |-> "Ok", called |-> FALSE]

\* the effect on the lights and the lock of a chain of unwrapped set_color
\* calls r1, r2, r3 made under the guard by thread
Lights(r1, r2, r3, thread) ==
    /\ colors' = r3.colors
    /\ hw' = r3.hw
    /\ poisoned' = (r3.ret # "Ok")
    /\ drv_calls' = SendLogged(SendLogged(SendLogged(drv_calls, r1, thread), r2, thread),
                               r3, thread)
    /\ light_last' = light_last

\* ---- ws_thread ----------------------------------------------------------

\* main.rs:91-92: the channel, then push_empty under the lock
WsRegister(c) ==
    /\ ws[c].pc = "new"
    /\ IF poisoned
       THEN /\ ws' = [ws EXCEPT ![c].pc = "panicked"]
            /\ UNCHANGED state
       ELSE LET r == push_empty(state.out_vec, c)
            IN  /\ state' = [state EXCEPT !.out_vec = r.vec]
                /\ ws' = [ws EXCEPT ![c] = [pc |-> "pushed", index |-> r.index]]
    /\ router_last' = RouterLast("register", c, <<>>, ~poisoned)
    /\ UNCHANGED <<poisoned, rx, pad, light_vars, drv_calls, slot_vars, actor_vars,
                   port_vars, dec_vars, conv_vars>>

\* main.rs:93-94: the pad of the session lit with 0x11 under the lock
WsLight(c) ==
    /\ ws[c].pc = "pushed"
    /\ IF poisoned
       THEN /\ ws' = [ws EXCEPT ![c].pc = "panicked"]
            /\ router_last' = RouterLast("light", c, <<>>, FALSE)
            /\ UNCHANGED <<poisoned, light_vars, drv_calls>>
       ELSE \E ok1 \in BOOLEAN :
            LET pos == index_to_pos(ws[c].index % 256)
                r1 == Then(Start(Buf), pos, Color_new(17), ok1)
            IN  /\ Lights(r1, r1, r1, WsThread(c))
                /\ ws' = [ws EXCEPT ![c].pc = IF r1.ret = "Ok" THEN "lit" ELSE "panicked"]
                /\ router_last' = RouterLast("light", c, pos, r1.ret = "Ok")
    /\ UNCHANGED <<state, rx, pad, slot_vars, actor_vars, port_vars, dec_vars, conv_vars>>

\* main.rs:96: accept(stream).unwrap(), outside the lock
WsAccept(c) ==
    /\ ws[c].pc = "lit"
    /\ \E ok \in BOOLEAN :
         /\ ws' = [ws EXCEPT ![c].pc = IF ok THEN "loop" ELSE "panicked"]
         /\ router_last' = RouterLast("accept", c, <<>>, ok)
    /\ UNCHANGED <<state, poisoned, rx, pad, light_vars, drv_calls, slot_vars,
                   actor_vars, port_vars, dec_vars, conv_vars>>

\* a plausible slip: the confirmed color whether selected or not
MsgColors_confirmed(m) == IF m = "1" THEN <<GREEN, GREEN>> ELSE <<RED, RED>>

\* the colors of a client message: <<color when selected, color otherwise>>
MsgColors(m) == IF m = "1" THEN <<GREEN, Color_new(16)>> ELSE <<RED, Color_new(1)>>

\* main.rs:98-124: one read_message and its match
WsRead(c) ==
    /\ ws[c].pc = "loop"
    /\ \E m \in ReadOutcomes :
         IF m = "closed"
         THEN /\ ws' = [ws EXCEPT ![c].pc = "exit"]
              /\ router_last' = RouterLast("read", c, m, TRUE)
              /\ UNCHANGED <<poisoned, light_vars, drv_calls>>
         ELSE IF m \notin {"1", "2"}
         THEN /\ ws' = [ws EXCEPT ![c].pc = "drain"]
              /\ router_last' = RouterLast("read", c, m, TRUE)
              /\ UNCHANGED <<poisoned, light_vars, drv_calls>>
         ELSE IF poisoned
         THEN /\ ws' = [ws EXCEPT ![c].pc = "panicked"]
              /\ router_last' = RouterLast("client_message", c, m, FALSE)
              /\ UNCHANGED <<poisoned, light_vars, drv_calls>>
         ELSE \E ok1 \in BOOLEAN, ok2 \in BOOLEAN :
              LET pos == index_to_pos(ws[c].index % 256)
                  sel == state.current = Some(ws[c].index % 256)
                  r1 == Then(Start(Buf), pos, MsgColors(m)[IF sel THEN 1 ELSE 2], ok1)
                  r2 == IF sel THEN Then(r1, <<0, 8>>, MsgColors(m)[1], ok2) ELSE r1
              IN  /\ Lights(r1, r2, r2, WsThread(c))
                  /\ ws' = [ws EXCEPT ![c].pc = IF r2.ret = "Ok" THEN "drain" ELSE "panicked"]
                  /\ router_last' = RouterLast("client_message", c, m, r2.ret = "Ok")
    /\ UNCHANGED <<state, rx, pad, slot_vars, actor_vars, port_vars, dec_vars, conv_vars>>

\* main.rs:126-130: every string waiting in rx written to the socket; a
\* failed write breaks the loop
WsDrain(c) ==
    /\ ws[c].pc = "drain"
    /\ \E writeOk \in BOOLEAN :
         /\ ws' = [ws EXCEPT ![c].pc = IF writeOk \/ rx[c] = <<>> THEN "loop" ELSE "exit"]
         /\ rx' = [rx EXCEPT ![c] = IF writeOk \/ rx[c] = <<>> THEN <<>> ELSE Tail(@)]
         /\ router_last' = RouterLast("drain", c, rx[c], writeOk \/ rx[c] = <<>>)
    /\ UNCHANGED <<state, poisoned, pad, light_vars, drv_calls, slot_vars, actor_vars,
                   port_vars, dec_vars, conv_vars>>

\* main.rs:133-135: the pad set BLACK and the slot released, under the lock
WsExit(c) ==
    /\ ws[c].pc = "exit"
    /\ IF poisoned
       THEN /\ ws' = [ws EXCEPT ![c].pc = "panicked"]
            /\ router_last' = RouterLast("unregister", c, <<>>, FALSE)
            /\ UNCHANGED <<state, poisoned, light_vars, drv_calls>>
       ELSE \E ok1 \in BOOLEAN :
            LET pos == index_to_pos(ws[c].index % 256)
                r1 == Then(Start(Buf), pos, BLACK, ok1)
            IN  /\ Lights(r1, r1, r1, WsThread(c))
                /\ state' = IF r1.ret = "Ok"
                            THEN [state EXCEPT !.out_vec = take_at(@, ws[c].index).vec]
                            ELSE state
                /\ ws' = [ws EXCEPT ![c].pc = IF r1.ret = "Ok" THEN "done" ELSE "panicked"]
                /\ router_last' = RouterLast("unregister", c, pos, r1.ret = "Ok")
    /\ UNCHANGED <<rx, pad, slot_vars, actor_vars, port_vars, dec_vars, conv_vars>>

\* ---- pad_thread ---------------------------------------------------------

\* the guard of main.rs:145, with Vec::get as written
press_selects(st, index) ==
    st.current # Some(index) /\ index < Len(st.out_vec)

\* main.rs:142-159: Event::Down((x, y @ 1..=7))
PadPress ==
    /\ pad = "running"
    /\ \E pos \in PadEvents :
         /\ pos[2] \in 1..7
         /\ IF poisoned
            THEN /\ pad' = "panicked"
                 /\ router_last' = RouterLast("press", PadThread, pos, FALSE)
                 /\ UNCHANGED <<state, poisoned, light_vars, drv_calls>>
            ELSE LET index == pos_to_index(pos)
                 IN  IF ~press_selects(state, index)
                     THEN /\ pad' = pad
                          /\ router_last' = RouterLast("press", PadThread, pos, TRUE)
                          /\ UNCHANGED <<state, poisoned, light_vars, drv_calls>>
                     ELSE \E ok1 \in BOOLEAN, ok2 \in BOOLEAN, ok3 \in BOOLEAN :
                          LET old == index_to_pos(state.current[1])
                              r1 == IF state.current = None THEN Start(Buf)
                                    ELSE Then(Start(Buf), old,
                                              Color_new(get_color(colors, old) \div 3), ok1)
                              col == Color_new((get_color(r1.colors, pos) * 3) % 256)
                              r2 == Then(r1, pos, col, ok2)
                              r3 == Then(r2, <<0, 8>>, col, ok3)
                          IN  /\ Lights(r1, r2, r3, PadThread)
                              /\ state' = IF r3.ret = "Ok"
                                          THEN [state EXCEPT !.current = Some(index)]
                                          ELSE state
                              /\ pad' = IF r3.ret = "Ok" THEN "running" ELSE "panicked"
                              /\ router_last' = RouterLast("press", PadThread, pos, r3.ret = "Ok")
    /\ UNCHANGED <<ws, rx, slot_vars, actor_vars, port_vars, dec_vars, conv_vars>>

\* main.rs:160-168: Event::Down((x @ 0..=4, 8)); tx.send fails when the
\* receiver is gone
PadTap ==
    /\ pad = "running"
    /\ \E pos \in PadEvents :
         /\ pos[1] \in 0..4 /\ pos[2] = 8
         /\ IF poisoned
            THEN /\ pad' = "panicked"
                 /\ router_last' = RouterLast("tap", PadThread, pos, FALSE)
                 /\ UNCHANGED <<rx, poisoned>>
            ELSE LET tx == IF state.current = None THEN None
                           ELSE get_inner(state.out_vec, state.current[1])
                 IN  IF tx = None
                     THEN /\ router_last' = RouterLast("tap", PadThread, pos, TRUE)
                          /\ UNCHANGED <<rx, pad, poisoned>>
                     ELSE IF RxAlive(tx[1])
                     THEN /\ Len(rx[tx[1]]) < MaxRx
                          /\ rx' = [rx EXCEPT ![tx[1]] = Append(@, ToString(pos[1]))]
                          /\ router_last' = RouterLast("tap", PadThread, pos, TRUE)
                          /\ UNCHANGED <<pad, poisoned>>
                     ELSE /\ pad' = "panicked"
                          /\ poisoned' = TRUE
                          /\ router_last' = RouterLast("tap", PadThread, pos, FALSE)
                          /\ rx' = rx
    /\ UNCHANGED <<state, ws, light_vars, drv_calls, slot_vars, actor_vars, port_vars,
                   dec_vars, conv_vars>>

\* every other event: `_ => ()`
PadIgnore ==
    /\ pad = "running"
    /\ \E pos \in PadEvents :
         /\ ~(pos[2] \in 1..7)
         /\ ~(pos[1] \in 0..4 /\ pos[2] = 8)
         /\ router_last' = RouterLast("ignore", PadThread, pos, TRUE)
    /\ UNCHANGED <<state, poisoned, ws, rx, pad, light_vars, drv_calls, slot_vars,
                   actor_vars, port_vars, dec_vars, conv_vars>>

RouterNext ==
    \/ \E c \in Conns : WsRegister(c)
    \/ \E c \in Conns : WsLight(c)
    \/ \E c \in Conns : WsAccept(c)
    \/ \E c \in Conns : WsRead(c)
    \/ \E c \in Conns : WsDrain(c)
    \/ \E c \in Conns : WsExit(c)
    \/ PadPress
    \/ PadTap
    \/ PadIgnore

-----------------------------------------------------------------------------
(* index_to_pos / pos_to_index (src/main.rs) as pure functions: one call of *)
(* either, on any value the router can hand it.                             *)

\* the largest u8: a session index is `index as u8`
U8Max == 255

\* the positions the first arm of pad_thread's match takes: the Down events
\* the decoder yields for the bytes a note-on can carry, with y in 1..=7
PressPositions ==
    {p \in {map_midi_msg(MidiMsg(IN_DATA, 144, b, 127, 0))[1].pos : b \in 0..MaxPosByte} :
        p[2] \in 1..7}

NotCalled == [fn |-> "none", arg |-> 0]

ConvInit ==
    /\ conv_in = NotCalled
    /\ conv_out = 0

ConvIndexToPos ==
    /\ conv_in.fn = "none"
    /\ \E index \in 0..U8Max :
         /\ conv_in' = [fn |-> "index_to_pos", arg |-> index]
         /\ conv_out' = index_to_pos(index)
    /\ UNCHANGED <<slot_vars, light_vars, actor_vars, router_vars, port_vars, dec_vars,
                   drv_calls>>

ConvPosToIndex ==
    /\ conv_in.fn = "none"
    /\ \E pos \in PressPositions :
         /\ conv_in' = [fn |-> "pos_to_index", arg |-> pos]
         /\ conv_out' = pos_to_index(pos)
    /\ UNCHANGED <<slot_vars, light_vars, actor_vars, router_vars, port_vars, dec_vars,
                   drv_calls>>

ConvNext == ConvIndexToPos \/ ConvPosToIndex

-----------------------------------------------------------------------------
(* Slot Table specification: any sequence of push_empty / take_at calls on *)
(* one table.  Items are numbered by the call that allocates them.         *)

SlotInit ==
    /\ slot_vec = <<>>
    /\ slot_hist = <<>>

SlotPush ==
    /\ Len(slot_hist) < MaxSlotOps
    /\ LET item == Len(slot_hist) + 1
           r == push_empty(slot_vec, item)
       IN  /\ slot_vec' = r.vec
           /\ slot_hist' = Append(slot_hist,
                  [op |-> "push", arg |-> item, ret |-> Some(r.index), pre |-> slot_vec])
    /\ UNCHANGED <<light_vars, actor_vars, router_vars, port_vars, dec_vars, conv_vars,
                   drv_calls>>

SlotTake ==
    /\ Len(slot_hist) < MaxSlotOps
    /\ \E index \in 0..MaxSlotIndex :
         LET r == take_at(slot_vec, index)
         IN  /\ slot_vec' = r.vec
             /\ slot_hist' = Append(slot_hist,
                    [op |-> "take", arg |-> index, ret |-> r.ret, pre |-> slot_vec])
    /\ UNCHANGED <<light_vars, actor_vars, router_vars, port_vars, dec_vars, conv_vars,
                   drv_calls>>

SlotNext == SlotPush \/ SlotTake

-----------------------------------------------------------------------------
(* Specifications: one per component, the other components at rest.        *)

Init ==
    /\ SlotInit /\ LightInit /\ ActorInit /\ RouterIdle /\ PortsInit /\ DecoderInit
    /\ ConvInit
    /\ drv_calls = {}

InitRouter ==
    SlotInit /\ ActorInit /\ RouterInit /\ PortsInit /\ DecoderInit /\ ConvInit

SpecRouter == InitRouter /\ [][RouterNext]_vars

SpecActor == Init /\ [][ActorNext]_vars

SpecPorts == Init /\ [][PortsNext]_vars

SpecDecoder == Init /\ [][DecoderNext]_vars

SpecConv == Init /\ [][ConvNext]_vars

SpecSlot == Init /\ [][SlotNext]_vars

SpecLight == Init /\ [][LightNext]_vars

-----------------------------------------------------------------------------
(* Claims about the Slot Table                                             *)

SlotLast == slot_hist[Len(slot_hist)]

\* the lowest-numbered empty index of v, or its length when none is empty
LowestFree(v) ==
    LET free == {i \in 0..(Len(v) - 1) : v[i + 1] = None}
    IN  IF free = {} THEN Len(v) ELSE Min(free)

\* the history is N allocations, then the release of index k, then one more
\* allocation
AllocReleaseAlloc(N, k) ==
    /\ Len(slot_hist) = N + 2
    /\ \A j \in 1..N : slot_hist[j].op = "push"
    /\ slot_hist[N + 1].op = "take"
    /\ slot_hist[N + 1].arg = k
    /\ slot_hist[N + 2].op = "push"

\* C5: allocate(item) stores the item at, and returns, the lowest-numbered
\* empty index (the length when no slot is empty); after N allocations, the
\* release of index k < N and one more allocation, the returned index is k.
C5_AllocateLowestFree ==
    /\ (slot_hist # <<>> /\ SlotLast.op = "push") =>
          /\ SlotLast.ret = Some(LowestFree(SlotLast.pre))
          /\ get_inner(slot_vec, SlotLast.ret[1]) = Some(SlotLast.arg)
    /\ \A N \in 1..MaxSlotOps : \A k \in 0..(N - 1) :
          AllocReleaseAlloc(N, k) => SlotLast.ret = Some(k)

C5_Witness ==
    /\ AllocReleaseAlloc(3, 1)
    /\ SlotLast.ret = Some(1)
    /\ slot_vec = <<Some(1), Some(5), Some(3)>>

\* the allocation recorded at position j of the history has not been released
LiveAlloc(j) ==
    /\ slot_hist[j].op = "push"
    /\ \A m \in (j + 1)..Len(slot_hist) :
          ~(slot_hist[m].op = "take" /\ Some(slot_hist[m].arg) = slot_hist[j].ret)

\* C6: an item allocated at index i and not yet released stays at index i:
\* get(i) keeps returning it whatever other allocate / release calls are made.
C6_OccupiedSlotsStay ==
    \A j \in 1..Len(slot_hist) :
        LiveAlloc(j) => get_inner(slot_vec, slot_hist[j].ret[1]) = Some(slot_hist[j].arg)

C6_Witness ==
    /\ Len(slot_hist) = 5
    /\ LiveAlloc(3)
    /\ slot_hist[4].op = "take" /\ slot_hist[4].arg = 0
    /\ slot_hist[5].op = "push" /\ slot_hist[5].ret = Some(0)
    /\ get_inner(slot_vec, 2) = Some(3)

-----------------------------------------------------------------------------
(* Claims about the light buffer                                           *)

\* the cells of the 9 x 9 array, as positions
Cells == {<<x, y>> : x \in 0..8, y \in 0..8}

\* the corner of the top row and the right column, which has no LED
Corner == <<8, 0>>

\* the LED a cell stands for on the device
CellAddr(pos) ==
    IF pos[2] = 0 THEN <<176, 104 + pos[1]>> ELSE <<144, (pos[2] - 1) * 16 + pos[1]>>

\* the color last sent with success for a cell: 0 when none was, or after a
\* clear
LastSent(pos) ==
    IF pos = Corner THEN 0
    ELSE IF hw[CellAddr(pos)] = NoSend THEN 0 ELSE hw[CellAddr(pos)]

FailedCallChangesNothing == light_last.ret # "Ok" => colors = light_last.pre

\* C4 as stated: every cell of the in-memory array equals the color last
\* successfully sent to the hardware for that cell, and a call whose send
\* fails leaves the array unchanged.
C4_Original ==
    /\ \A pos \in Cells : colors[CellIndex(pos)] = LastSent(pos)
    /\ FailedCallChangesNothing

\* C4 amended: the same for every cell but the corner (8, 0); set_color on the
\* corner sends nothing, returns Ok and still records the color.
C4_MemoryMatchesDevice ==
    /\ \A pos \in Cells \ {Corner} : colors[CellIndex(pos)] = LastSent(pos)
    /\ FailedCallChangesNothing
    /\ (light_last.op = "set_color" /\ light_last.pos = Corner) =>
          /\ light_last.ret = "Ok"
          /\ colors[CellIndex(Corner)] = light_last.col

C4_Witness ==
    /\ light_last.op = "set_color"
    /\ light_last.pos = <<0, 1>>
    /\ light_last.col = GREEN
    /\ light_last.ret = "MidiError"
    /\ colors[CellIndex(<<0, 1>>)] = RED
    /\ hw[CellAddr(<<0, 1>>)] = RED
    /\ colors[CellIndex(Corner)] = RED

-----------------------------------------------------------------------------
(* Claims about the Hardware Port Actor                                    *)

OpenOps == {"InOpen", "OutOpen"}
CloseOps == {"InClose", "OutClose"}
UnitOps == {"InReset", "InStart", "InStop", "OutReset", "OutSend"}

Occupied(vec) == Cardinality({i \in 1..Len(vec) : vec[i] # None})

TablesUnchanged == in_vec = act_last.pre_in /\ out_vec = act_last.pre_out

NoReplyTwice == \A r \in 1..MaxInst : Len(replies[r]) <= 1

QueuedUnanswered ==
    \A i \in 1..Len(inst_q) : inst_q[i].req # 0 => replies[inst_q[i].req] = <<>>

\* C1 as stated: every instruction that carries a reply channel produces
\* exactly one reply once the actor has handled it, whatever the state of
\* the slot it names.
C1_Original ==
    /\ NoReplyTwice
    /\ act_last.req # 0 => Len(replies[act_last.req]) = 1

\* C1 amended: no reply channel is ever answered twice; an Open, and a Start,
\* Stop, Reset or Send naming a slot that is occupied when the actor handles
\* it, is answered exactly once; a Start, Stop, Reset or Send naming a slot
\* that is not occupied is answered never.
C1_ExactlyOneReplyIfSlotFound ==
    /\ NoReplyTwice
    /\ QueuedUnanswered
    /\ act_last.req # 0 =>
          Len(replies[act_last.req]) =
              IF act_last.op \in OpenOps \/ act_last.found THEN 1 ELSE 0

C1_Witness ==
    /\ act_last.op = "OutSend"
    /\ ~act_last.found
    /\ replies[act_last.req] = <<>>
    /\ \E r \in 1..MaxInst : replies[r] = <<ReplyUnit>>
    /\ \E r \in 1..MaxInst : replies[r] = <<ReplyOk(0)>>

\* C7: per port kind the number of occupied slots is the number of successful
\* Opens minus the number of Closes that found their slot occupied; a Close
\* naming an empty or out-of-range slot changes nothing and calls no driver
\* primitive.
C7_OccupiedIsOpensMinusCloses ==
    /\ Occupied(in_vec) = opens_ok.in - closes_hit.in
    /\ Occupied(out_vec) = opens_ok.out - closes_hit.out
    /\ (act_last.op \in CloseOps /\ ~act_last.found) =>
          /\ TablesUnchanged
          /\ act_last.calls = NoCalls

C7_Witness ==
    /\ act_last.op = "InClose"
    /\ ~act_last.found
    /\ act_last.num = 0
    /\ opens_ok.in = 2
    /\ closes_hit.in = 1
    /\ Occupied(in_vec) = 1
    /\ actor = "running"

\* the slots of vec other than index num are those of pre
OthersUnchanged(pre, vec, num) ==
    \A i \in 0..(Len(vec) - 1) : i # num => get_inner(vec, i) = get_inner(pre, i)

OpenedAt(pre, vec, num) ==
    /\ get_inner(pre, num) = None
    /\ get_inner(vec, num) # None
    /\ OthersUnchanged(pre, vec, num)

\* C8: when the driver open fails the actor replies with the driver error and
\* both slot tables are unchanged; when it succeeds the replied index is the
\* slot that has just become occupied.
C8_OpenFailureConsumesNoSlot ==
    act_last.op \in OpenOps =>
        LET r == replies[act_last.req]
        IN  /\ Len(r) = 1
            /\ ~act_last.calls[1].ok => (r[1] = ReplyErr /\ TablesUnchanged)
            /\ act_last.calls[1].ok =>
                  /\ r[1].res = "Ok"
                  /\ IF act_last.op = "InOpen"
                     THEN OpenedAt(act_last.pre_in, in_vec, r[1].num)
                          /\ out_vec = act_last.pre_out
                     ELSE OpenedAt(act_last.pre_out, out_vec, r[1].num)
                          /\ in_vec = act_last.pre_in

C8_Witness ==
    /\ act_last.op = "InOpen"
    /\ ~act_last.calls[1].ok
    /\ replies[act_last.req] = <<ReplyErr>>
    /\ Occupied(in_vec) = 1
    /\ \E r \in 1..MaxInst : replies[r] = <<ReplyOk(0)>>

\* C9: a Start, Stop, Reset or Send naming a slot that is not occupied is
\* dropped: no reply, no driver primitive, slot tables unchanged.
C9_UnoccupiedSlotDropped ==
    (act_last.op \in UnitOps /\ ~act_last.found) =>
        /\ replies[act_last.req] = <<>>
        /\ act_last.calls = NoCalls
        /\ TablesUnchanged

C9_Witness ==
    /\ act_last.op = "InStart"
    /\ ~act_last.found
    /\ act_last.num = 0
    /\ opens_ok.in = 1
    /\ closes_hit.in = 1
    /\ replies[act_last.req] = <<>>

FailedCall == \E i \in 1..Len(act_last.calls) : ~act_last.calls[i].ok

\* C10: when the driver's reset or close fails during the Close of an
\* occupied slot, the slot is released all the same and the actor goes on
\* processing its queue.
C10_CloseFailureAbsorbed ==
    (act_last.op \in CloseOps /\ act_last.found /\ FailedCall) =>
        /\ get_inner(IF act_last.op = "InClose" THEN in_vec ELSE out_vec, act_last.num) = None
        /\ actor = "running"

-----------------------------------------------------------------------------
(* Claims about the running program: the router over src/win_midi.rs       *)

\* C2: every native driver primitive is invoked by one and the same thread,
\* and none is invoked on a handle after its close.
C2_OnlyOneThreadCallsDriver ==
    \A c \in drv_calls, d \in drv_calls : c.thread = d.thread /\ ~c.stale

\* a component of the color at the bright intensity 3
Bright(col) == col % 4 = 3 \/ (col \div 16) % 4 = 3

\* the indices whose pads lie in rows 1..7, the rows pad_thread selects from
SessionPads == 0..55

\* C3: at most one session id is selected, and every session pad whose light
\* has a component at intensity 3 is the pad of the selected session id.
C3_BrightOnlyIfSelected ==
    /\ state.current = None \/ \E i \in SessionPads : state.current = Some(i)
    /\ \A i \in SessionPads :
          Bright(get_color(colors, index_to_pos(i))) => state.current = Some(i)

-----------------------------------------------------------------------------
(* Claims about the port handles and the actor                              *)

\* the instructions of the handles still on the queue, and how many the
\* actor has taken
PortQ == SelectSeq(inst_q, LAMBDA i : i.op # "InMsg")
Handled == Len(sent) - Len(PortQ)

\* what the actor has not yet taken is the tail of what was sent, in order
QueueIsTailOfSent ==
    /\ Handled >= 0
    /\ \A i \in 1..Len(PortQ) : PortQ[i] = sent[Handled + i].inst

\* the instruction the actor took last is the oldest one it had not taken
LastIsOldest ==
    act_last.op \notin {"none", "InMsg"} =>
        /\ Handled > 0
        /\ act_last.op = sent[Handled].inst.op
        /\ act_last.req = sent[Handled].inst.req
        /\ act_last.num = sent[Handled].inst.num

PortVec(kind) == IF kind = "in" THEN in_vec ELSE out_vec

\* the handle in the slot: the native handle is numbered by the Open's request
SlotHandle(kind, num) ==
    LET item == get_inner(PortVec(kind), num)
    IN  IF item = None THEN 0
        ELSE IF kind = "in" THEN InHandle(item[1]) ELSE OutHandle(item[1])

\* C11: the actor takes the instructions in the order they were sent, so
\* every instruction of a handle finds the handle's slot as the handle's
\* earlier instructions left it; and from the moment the issuer of an Open
\* has observed Ok(num), slot num holds the port that Open opened.
C11_OrderAndReplyAfterChange ==
    /\ QueueIsTailOfSent
    /\ LastIsOldest
    /\ act_last.op \in UnitOps => act_last.found
    /\ \A p \in 1..MaxInst :
          ports[p].st = "open" => SlotHandle(ports[p].kind, ports[p].num) = p

C11_Witness ==
    /\ ports[1].st = "open"
    /\ ports[1].kind = "in"
    /\ Len(inst_q) = 2
    /\ inst_q[1].op = "InStart"
    /\ inst_q[2].op = "OutOpen"
    /\ Handled = 1

\* the Closes a handle has sent
ClosesOf(p) ==
    SelectSeq(sent, LAMBDA e : e.port = p /\ e.inst.op \in CloseOps)

\* the Close of handle p has been taken by the actor
CloseHandled(p) ==
    \E i \in 1..Handled : sent[i].port = p /\ sent[i].inst.op \in CloseOps

TakesInMsg ==
    /\ actor = "running"
    /\ inst_q # <<>>
    /\ Head(inst_q).op = "InMsg"
    /\ inst_q' = Tail(inst_q)

\* the slot the notification at the head of the queue names
MsgSlot == get_inner(in_vec, Head(inst_q).num)

\* C25: a notification processed after its slot was released, or after the
\* receiver of the slot's notification channel was dropped by a handle that
\* is being destroyed, is discarded: no table, channel or reply changes and
\* midi_io keeps running.
C25_Step ==
    (TakesInMsg /\ (MsgSlot = None \/ MsgSlot[1].tx \notin msg_rx)) =>
        /\ actor' = "running"
        /\ msg_ch' = msg_ch
        /\ in_vec' = in_vec
        /\ out_vec' = out_vec
        /\ replies' = replies

C25_LateNotificationDiscarded == [][C25_Step]_vars

\* C26: every notification delivered on a port's notification channel was
\* produced by the driver for that port's own handle.
C26_NotificationsFromOwnPort ==
    \A t \in 1..MaxInst :
        \A i \in 1..Len(msg_ch[t]) : msg_ch[t][i].src = t

-----------------------------------------------------------------------------
(* Claims about the Grid Event Decoder                                      *)

Fed == dec_in # NotFed

\* the notification fed is the data message with these three bytes
IsData(st, pos, vel) ==
    \E hi \in DecHighBytes : dec_in = MidiMsg(IN_DATA, st, pos, vel, hi)

\* the matrix message of column c, row r
MatrixByte(c, r) == (r - 1) * 16 + c

IsMatrix(vel) ==
    \E c \in 0..7, r \in 1..8 : IsData(144, MatrixByte(c, r), vel)

\* C13 as stated: the matrix velocity-on message of column c in 0..7 and
\* row r in 1..8 gives exactly Press(c, r), the velocity-off message exactly
\* Release(c, r), and every other notification no event.
C13_Original ==
    Fed =>
        /\ \A c \in 0..7, r \in 1..8 :
              /\ IsData(144, MatrixByte(c, r), 127) => dec_out = Some(Down(<<c, r>>))
              /\ IsData(144, MatrixByte(c, r), 0) => dec_out = Some(Up(<<c, r>>))
        /\ ~(IsMatrix(127) \/ IsMatrix(0)) => dec_out = None

\* the event of a data message with status st, second byte pos and velocity
\* 0x7F (Down) or 0 (Up)
Expected(st, pos, kind) ==
    IF st = 144 THEN Some([kind |-> kind, pos |-> <<pos % 16, (pos \div 16) + 1>>])
    ELSE IF st = 176 THEN Some([kind |-> kind, pos |-> <<pos % 8, 0>>])
    ELSE None

\* C13 amended: a note-on (0x90) data message with second byte p gives
\* Press(p mod 16, p div 16 + 1) at velocity 0x7F and the matching Release at
\* velocity 0, which for c in 0..7, r in 1..8 is Press(c, r) / Release(c, r);
\* a controller (0xB0) data message gives Press / Release (p mod 8, 0); every
\* other notification gives no event.
C13_DecoderEvents ==
    Fed =>
        /\ \A c \in 0..7, r \in 1..8 :
              /\ IsData(144, MatrixByte(c, r), 127) => dec_out = Some(Down(<<c, r>>))
              /\ IsData(144, MatrixByte(c, r), 0) => dec_out = Some(Up(<<c, r>>))
        /\ \A st \in DecStatuses, pos \in 0..MaxPosByte :
              /\ IsData(st, pos, 127) => dec_out = Expected(st, pos, "Down")
              /\ IsData(st, pos, 0) => dec_out = Expected(st, pos, "Up")
        /\ (dec_in.msg # IN_DATA \/ \A st \in DecStatuses, pos \in 0..MaxPosByte :
                                        ~IsData(st, pos, 127) /\ ~IsData(st, pos, 0))
              => dec_out = None

C13_Witness ==
    /\ IsData(144, MatrixByte(8, 3), 127)
    /\ dec_out = Some(Down(<<8, 3>>))

-----------------------------------------------------------------------------
(* Claims about the Session Router                                          *)

\* the red and the green intensity of a color
RedOf(col) == col % 4
GreenOf(col) == (col \div 16) % 4

Dim(col) == RedOf(col) <= 1 /\ GreenOf(col) <= 1

\* session index i is registered: its slot holds the sender of a connection
\* whose ws_thread has lit the pad and has not yet unregistered
Registered(i) ==
    /\ get_inner(state.out_vec, i) # None
    /\ LET c == get_inner(state.out_vec, i)[1]
       IN  ws[c].index = i /\ ws[c].pc \in {"lit", "loop", "drain", "exit"}

LightOf(i) == get_color(colors, index_to_pos(i))
Indicator == get_color(colors, <<0, 8>>)

\* the last step was a press of a pad of rows 1..7 that panicked nowhere
Pressed == router_last.op = "press" /\ router_last.ok

PressedIndex == pos_to_index(router_last.arg)

\* C14: after a press on the pad of a registered session that session is the
\* selected one and its light is bright; if another registered session was
\* selected before, that one's light is now dim and the function-row
\* indicator has the color of the newly selected session's light.
C14_PressSelectsAndBrightens ==
    (Pressed /\ Registered(PressedIndex)) =>
        /\ state.current = Some(PressedIndex)
        /\ Bright(LightOf(PressedIndex))
        /\ (router_last.pre # None /\ router_last.pre # Some(PressedIndex)
              /\ Registered(router_last.pre[1])) =>
              /\ Dim(LightOf(router_last.pre[1]))
              /\ Indicator = LightOf(PressedIndex)

\* the step is a press that moves the selection away from a session
MovesSelection == state.current # None /\ state'.current # state.current

\* C15: a press that moves the selection away from a session dims that
\* session's light without changing its hue: each component is the previous
\* one divided by 3, so it is non-zero exactly when it was non-zero before.
C15_Step ==
    MovesSelection =>
        LET old == index_to_pos(state.current[1])
            before == get_color(colors, old)
            after == get_color(colors', old)
        IN  /\ RedOf(after) = RedOf(before) \div 3
            /\ GreenOf(after) = GreenOf(before) \div 3
            /\ (RedOf(after) # 0) = (RedOf(before) # 0)
            /\ (GreenOf(after) # 0) = (GreenOf(before) # 0)

C15_DimKeepsHue == [][C15_Step]_vars

\* the sender the selection leads to: None when nothing is selected or the
\* selected slot is empty
SelectedTx ==
    IF state.current = None THEN None
    ELSE get_inner(state.out_vec, state.current[1])

\* C16: a press on function-row button c in 0..4 puts exactly the text of c
\* on the queue of the selected session and on no other queue, and changes no
\* light and no selection; with no session selected it changes nothing.
C16_Step ==
    router_last'.op = "tap" =>
        /\ colors' = colors
        /\ hw' = hw
        /\ state' = state
        /\ rx' = IF SelectedTx = None THEN rx
                 ELSE [rx EXCEPT ![SelectedTx[1]] = Append(@, ToString(router_last'.arg[1]))]

C16_TapForwardsToSelected == [][C16_Step]_vars

\* the colors with the cells of the positions ps set to col
Painted(cs, ps, col) ==
    [i \in DOMAIN cs |-> IF \E q \in ps : i = CellIndex(q) THEN col ELSE cs[i]]

\* C17: a client message "1" that completes sets the session's light and
\* the indicator to GREEN when the session's id is the selected one, and
\* otherwise only the session's light, to 0x10; "2" does the same with RED
\* and 0x01; no other light and no selection changes; any other message
\* changes no light and no selection.
C17_Step ==
    /\ (router_last'.op = "client_message" /\ router_last'.ok) =>
          LET c == router_last'.who
              pos == index_to_pos(ws[c].index)
              one == router_last'.arg = "1"
          IN  /\ router_last'.arg \in {"1", "2"}
              /\ state' = state
              /\ colors' =
                    IF state.current = Some(ws[c].index)
                    THEN Painted(colors, {pos, <<0, 8>>}, IF one THEN GREEN ELSE RED)
                    ELSE Painted(colors, {pos}, IF one THEN 16 ELSE 1)
    /\ (router_last'.op = "read" /\ router_last'.arg = "other") =>
          colors' = colors /\ hw' = hw /\ state' = state

C18_Step ==
    router_last'.op = "unregister" =>
        LET c == router_last'.who
            i == ws[c].index
        IN  /\ colors' = Painted(colors, {index_to_pos(i)}, BLACK)
            /\ get_inner(state'.out_vec, i) = None
            /\ \A j \in 0..(Len(state.out_vec) - 1) :
                  j # i => get_inner(state'.out_vec, j) = get_inner(state.out_vec, j)

C18_UnregisterBlackAndFree == [][C18_Step]_vars

\* C19: nothing runs between the two effects of a register: when a session
\* has its slot and its pad is not yet lit, the next step is the lighting of
\* that pad.
C19_Step ==
    \A c \in Conns : ws[c].pc = "pushed" => ws'[c].pc # "pushed"

C19_RegisterIsAtomic == [][C19_Step]_vars

\* the positions of the 9 x 9 geometry
InGeometry(pos) == pos[1] \in 0..8 /\ pos[2] \in 0..8

\* C20: a light get or set at a position outside the geometry returns
\* OutOfRange, panics nothing and leaves the light array unchanged.
C20_OutOfRangeRejected ==
    (light_last.op \in {"set_color", "get_color"} /\ ~InGeometry(light_last.pos)) =>
        /\ light_last.ret = "OutOfRange"
        /\ colors = light_last.pre

\* the step is a transport failure of connection c: a failed handshake, a
\* read error, or a failed write
TransportFails(c) ==
    /\ \/ router_last'.op = "accept" /\ ~router_last'.ok
       \/ router_last'.op = "read" /\ router_last'.arg = "error"
       \/ router_last'.op = "drain" /\ ~router_last'.ok
    /\ router_last'.who = c

\* C21: a transport failure of a session (failed handshake, read error,
\* failed write) takes that session's handler out of its loop to unregister,
\* and stops no other handler and not the grid thread.
C21_Step ==
    \A c \in Conns :
        TransportFails(c) =>
            /\ ws'[c].pc = "exit"
            /\ pad' = pad
            /\ \A d \in Conns \ {c} : ws'[d] = ws[d]

C21_TransportFailureUnregisters == [][C21_Step]_vars

\* the selected id points at a slot that holds no sender
StaleSelection == state.current # None /\ SelectedTx = None

\* C23: the unregister of the selected session leaves the selected id as it
\* is, pointing at the freed slot; from then on function-row presses forward
\* nothing and no session is selected, until a pad press selects one.
C23_Step ==
    /\ (router_last'.op = "unregister" /\ router_last'.ok
          /\ state.current = Some(ws[router_last'.who].index)) =>
          /\ state'.current = state.current
          /\ StaleSelection'
    /\ (StaleSelection /\ router_last'.op # "press") =>
          /\ StaleSelection'
          /\ rx' = rx

C23_StaleUntilNextPress == [][C23_Step]_vars

\* the event the decoder yields for the velocity-on controller message of
\* function-row button c (status 0xB0, second byte 0x68 + c)
FnRowDown(c) == map_midi_msg(MidiMsg(IN_DATA, 176, 104 + c, 127, 0))

\* C24: the event decoded from the velocity-on notification of function-row
\* button c in 0..4, handled by pad_thread while a session is selected, puts
\* the text of c on the queue of the selected session.
C24_Step ==
    \A c \in 0..4 :
        (/\ router_last'.op \in {"press", "tap", "ignore"}
         /\ router_last'.arg = FnRowDown(c)[1].pos
         /\ SelectedTx # None) =>
            rx' = [rx EXCEPT ![SelectedTx[1]] = Append(@, ToString(c))]

C24_DecodedFnRowForwards == [][C24_Step]_vars

\* C27: a press on a pad whose session slot holds no sender (never
\* allocated, or released and not reused) changes neither the selected id
\* nor any light.
C27_Step ==
    (/\ router_last'.op = "press"
     /\ get_inner(state.out_vec, pos_to_index(router_last'.arg)) = None) =>
        /\ state'.current = state.current
        /\ colors' = colors
        /\ hw' = hw

C27_PressOnFreeSlotIgnored == [][C27_Step]_vars

\* C28: function-row taps go to the session SelectedTx leads to, and a
\* session becomes that session only by a press on its own pad, made while it
\* is registered: not by registering into a slot the selected id points at.
C28_Step ==
    \A c \in Conns :
        (SelectedTx' = Some(c) /\ SelectedTx # Some(c)) =>
            /\ router_last'.op = "press"
            /\ pos_to_index(router_last'.arg) = ws[c].index
            /\ get_inner(state.out_vec, ws[c].index) = Some(c)

C28_TapsOnlyAfterOwnPress == [][C28_Step]_vars

\* the transitions that take the router lock
LockOps == {"register", "light", "client_message", "unregister", "press", "tap"}

\* C29: a transition made after a hardware send failed in another thread's
\* transition still acquires the router lock: it does not fail on the lock.
C29_Step ==
    (poisoned /\ router_last'.op \in LockOps) => router_last'.ok

C29_SendFailureIsolated == [][C29_Step]_vars

-----------------------------------------------------------------------------
(* Claims about index_to_pos / pos_to_index                                 *)

\* C22: pos_to_index(index_to_pos(i)) = i for every session index i, and
\* index_to_pos(pos_to_index(p)) = p for every position p the press arm takes.
C22_IndexPosInverse ==
    /\ conv_in.fn = "index_to_pos" => pos_to_index(conv_out) = conv_in.arg
    /\ conv_in.fn = "pos_to_index" => index_to_pos(conv_out) = conv_in.arg

=============================================================================
